---- MODULE Spec2Model ----
(***************************************************************************)
(* Model of groups_sync.py: one run of main() over the configured          *)
(* group_map, with the Groups Web Service, getent and gpasswd as the       *)
(* environment.  A string that the program parses or matches is the        *)
(* sequence of its characters' Unicode code points (ord(c) in Python), so  *)
(* "" is <<>>, [""] is << <<>> >> and "a\n" is <<97, 10>>.                 *)
(***************************************************************************)
EXTENDS Integers, Sequences, FiniteSets, TLC

VARIABLES
    group_map,                \* config["group_map"], in insertion order
    localdb,                  \* the operating system's group database
    pc,                       \* position of main()
    i,                        \* index of the mapping the for loop is at
    r,                        \* the response held inside get_uw_group_members
    uw_group_member_list,     \* main(): result of get_uw_group_members
    local_group_member_list,  \* main(): result of get_local_group_members
    add_count,
    remove_count,
    j,                        \* position of the loop over uw_group_member_list
    k,                        \* position of the loop over local_group_member_list
    output,                   \* the FATAL and UWGROUP lines printed so far
    exit_code,                \* process exit status, -1 while running
    calls,                    \* history: gpasswd invocations of this mapping;
                              \* a failed one is the ERROR line printed for it
    fetched,                  \* history: what the fetch of this mapping met
    readres,                  \* history: what the local read of this mapping met
    snapshot,                 \* history: the group's real members at read time
    dbstart,                  \* history: the database when the mapping started
    failed                    \* history: some fetch or read of this run failed

vars == <<group_map, localdb, pc, i, r, uw_group_member_list,
          local_group_member_list, add_count, remove_count, j, k, output,
          exit_code, calls, fetched, readres, snapshot, dbstart, failed>>

(* ------------------------------ bounds -------------------------------- *)

MaxMappings == 2
MaxData == 2
MaxEntries == 2
MaxIdLen == 2

(* ------------------------------ strings ------------------------------- *)

SeqToSet(s) == {s[n] : n \in 1..Len(s)}

\* Letters and digits in code point order: "0" is U+0030, "A" is U+0041,
\* "a" is U+0061
Digits == <<"0", "1", "2", "3", "4", "5", "6", "7", "8", "9">>
UpperCase ==
    <<"A", "B", "C", "D", "E", "F", "G", "H", "I", "J", "K", "L", "M",
      "N", "O", "P", "Q", "R", "S", "T", "U", "V", "W", "X", "Y", "Z">>
LowerCase ==
    <<"a", "b", "c", "d", "e", "f", "g", "h", "i", "j", "k", "l", "m",
      "n", "o", "p", "q", "r", "s", "t", "u", "v", "w", "x", "y", "z">>

Index(seq, c) == CHOOSE n \in 1..Len(seq) : seq[n] = c

\* ord(c) of a letter or digit, and the code points of a string given by
\* its characters
Ord(c) == IF c \in SeqToSet(Digits) THEN 47 + Index(Digits, c)
          ELSE IF c \in SeqToSet(UpperCase) THEN 64 + Index(UpperCase, c)
          ELSE 96 + Index(LowerCase, c)
Chars(s) == [n \in 1..Len(s) |-> Ord(s[n])]

Lower == Ord("a")..Ord("z")
Digit == Ord("0")..Ord("9")
NL == 10
Colon == 58
Comma == 44

\* The characters str.strip() removes (those with str.isspace()): tab, line
\* feed, vertical tab, form feed, carriage return, U+001C to U+001F, space,
\* U+0085, U+00A0, U+1680, U+2000 to U+200A, U+2028, U+2029, U+202F, U+205F
\* and U+3000
Whitespace ==
    {9, 10, 11, 12, 13, 28, 29, 30, 31, 32, 133, 160, 5760}
    \cup (8192..8202) \cup {8232, 8233, 8239, 8287, 12288}

\* Python: x in list
In(x, list) == \E n \in 1..Len(list) : list[n] = x

\* Python: str.strip()
RECURSIVE LStrip(_)
LStrip(s) == IF s # <<>> /\ s[1] \in Whitespace THEN LStrip(Tail(s)) ELSE s
RECURSIVE RStrip(_)
RStrip(s) == IF s # <<>> /\ s[Len(s)] \in Whitespace
             THEN RStrip(SubSeq(s, 1, Len(s) - 1)) ELSE s
Strip(s) == RStrip(LStrip(s))

\* Python: str.split(sep) for a one-character separator
RECURSIVE Split(_, _)
Split(s, sep) ==
    IF \A n \in 1..Len(s) : s[n] # sep
    THEN <<s>>
    ELSE LET p == CHOOSE n \in 1..Len(s) :
                      s[n] = sep /\ \A m \in 1..(n - 1) : s[m] # sep
         IN <<SubSeq(s, 1, p - 1)>> \o Split(SubSeq(s, p + 1, Len(s)), sep)

\* ",".join(list), the member field of a group record
RECURSIVE Join(_)
Join(list) == IF list = <<>> THEN <<>>
              ELSE IF Len(list) = 1 THEN list[1]
              ELSE list[1] \o <<Comma>> \o Join(Tail(list))

\* A full match of [a-z][a-z0-9]{0,7}
NetIDCore(s) == /\ Len(s) \in 1..8
                /\ s[1] \in Lower
                /\ \A n \in 2..Len(s) : s[n] \in Lower \cup Digit

\* re.match("^[a-z][a-z0-9]{0,7}$", id): $ matches at the end of the string
\* and also just before a newline that ends the string
ReMatchNetID(id) ==
    \/ NetIDCore(id)
    \/ /\ id # <<>>
       /\ id[Len(id)] = NL
       /\ NetIDCore(SubSeq(id, 1, Len(id) - 1))

(* --------------------------- values in play --------------------------- *)

alice == Chars(<<"a","l","i","c","e">>)
bob == Chars(<<"b","o","b">>)
carol == Chars(<<"c","a","r","o","l">>)
Accounts == {alice, bob, carol}

LocalGroups == {Chars(<<"g","1">>), Chars(<<"g","2">>)}
UwGroup(n) == Chars(<<"u", "w">>) \o <<Ord("0") + n>>
Gid == Chars(<<"1","0","0","1">>)
Statuses == {200, 500}

NoResponse == [err |-> FALSE, status |-> 0, kind |-> "none", data |-> <<>>]
NoRead == [done |-> FALSE, exists |-> FALSE, tool_ok |-> FALSE]

\* Directory entries the service may list for a group
Entries == {[type |-> "uwnetid", id |-> alice],
            [type |-> "uwnetid", id |-> carol],
            [type |-> "group", id |-> bob],
            [type |-> "uwnetid", id |-> Chars(<<"E","v","e">>)]}

DataLists(pool, max) == UNION {[1..n -> pool] : n \in 0..max}

\* What requests.get can meet: an exception (transport or TLS error), or a
\* response with a status and a body that is not JSON, JSON without "data",
\* or JSON with a "data" list
ResponsesOver(pool, max) ==
    {[err |-> TRUE, status |-> 0, kind |-> "none", data |-> <<>>]}
    \cup {[err |-> FALSE, status |-> s, kind |-> kd, data |-> <<>>] :
              s \in Statuses, kd \in {"notjson", "nodata"}}
    \cup {[err |-> FALSE, status |-> s, kind |-> "data", data |-> d] :
              s \in Statuses, d \in DataLists(pool, max)}

Responses == ResponsesOver(Entries, MaxData)

\* Member lists a local group may start with
InitialMembers == {<<>>, <<alice>>}
NoGroup == [exists |-> FALSE, members |-> <<>>]

(* ------------------------- get_uw_group_members ----------------------- *)

Raised == [raised |-> TRUE, value |-> <<>>]
Returned(v) == [raised |-> FALSE, value |-> v]

\* lines 33 and 36: the two tests an entry passes to be appended
KeepMember(member) == member.type = "uwnetid" /\ ReMatchNetID(member.id)

RECURSIVE FilterMembers(_)
FilterMembers(data) ==
    IF data = <<>> THEN <<>>
    ELSE (IF KeepMember(data[1]) THEN <<data[1].id>> ELSE <<>>)
         \o FilterMembers(Tail(data))

\* requests.get raises on a transport error; r.json() raises on a body that
\* is not JSON; ["data"] raises when the key is missing.  The status code
\* is never looked at.
get_uw_group_members(resp) ==
    IF resp.err \/ resp.kind # "data" THEN Raised
    ELSE Returned(FilterMembers(resp.data))

(* ------------------------ get_local_group_members --------------------- *)

\* stdout of `getent group <local_group>`: the record line, or nothing when
\* the group is unknown or the tool fails
Getent(db, local_group, tool_ok) ==
    IF ~tool_ok \/ ~db[local_group].exists THEN <<>>
    ELSE local_group \o <<Colon, Ord("x"), Colon>> \o Gid \o <<Colon>>
         \o Join(db[local_group].members) \o <<NL>>

get_local_group_members(stdout) ==
    LET fields == Split(Strip(stdout), Colon)
    IN IF Len(fields) < 4 THEN Raised
       ELSE Returned(Split(fields[4], Comma))

(* ------------------------------- gpasswd ------------------------------ *)

RECURSIVE Without(_, _)
Without(list, x) ==
    IF list = <<>> THEN <<>>
    ELSE (IF list[1] = x THEN <<>> ELSE <<list[1]>>) \o Without(Tail(list), x)

\* gpasswd -a member local_group: fails for an unknown account or when the
\* tool cannot write; adding a present member succeeds and changes nothing
GpasswdAdd(db, local_group, member, env_ok) ==
    LET ok == env_ok /\ db[local_group].exists /\ member \in Accounts
        ms == db[local_group].members
    IN [returncode |-> IF ok THEN 0 ELSE 1,
        db |-> IF ok /\ ~In(member, ms)
               THEN [db EXCEPT ![local_group].members = Append(ms, member)]
               ELSE db]

\* gpasswd -d member local_group: fails when member is not in the group
GpasswdDel(db, local_group, member, env_ok) ==
    LET ms == db[local_group].members
        ok == env_ok /\ db[local_group].exists /\ In(member, ms)
    IN [returncode |-> IF ok THEN 0 ELSE 1,
        db |-> IF ok
               THEN [db EXCEPT ![local_group].members = Without(ms, member)]
               ELSE db]

add_local_group_member(db, local_group, member, env_ok) ==
    LET res == GpasswdAdd(db, local_group, member, env_ok)
    IN [raised |-> res.returncode # 0, db |-> res.db]

remove_local_group_member(db, local_group, member, env_ok) ==
    LET res == GpasswdDel(db, local_group, member, env_ok)
    IN [raised |-> res.returncode # 0, db |-> res.db]

(* -------------------------------- main -------------------------------- *)

\* line 109
SetsDiffer(uw_list, local_list) == SeqToSet(uw_list) # SeqToSet(local_list)
\* Mutant of NeedsAdd: the membership test of line 111 is dropped
NeedsAddAlways(member, local_list) == TRUE
\* line 111
NeedsAdd(member, local_list) == ~In(member, local_list)
\* Mutant of NeedsRemove: the removal loop never finds anything to remove
NeedsRemoveNever(member, uw_list) == FALSE
\* line 122
NeedsRemove(member, uw_list) == ~In(member, uw_list)

Line(kind, uw, lg, add, rem) ==
    [kind |-> kind, uw |-> uw, lg |-> lg, add |-> add, rem |-> rem]
\* Mutant of NextMember: the try encloses the loop, so a raise ends it
NextMemberAbort(pos, raised, len) == IF raised THEN len + 1 ELSE pos + 1
\* line 112-119 and 123-130: the try is inside the loop body, so the loop
\* goes on to the next member whether or not the call raised
NextMember(pos, raised, len) == pos + 1

Call(op, lg, member, ok) == [op |-> op, lg |-> lg, member |-> member, ok |-> ok]

uw_group == group_map[i].uw
local_group == group_map[i].lg

GroupMaps ==
    UNION {{[m \in 1..n |-> [uw |-> UwGroup(m), lg |-> f[m]]] :
               f \in [1..n -> LocalGroups]} : n \in 0..MaxMappings}

Init ==
    /\ group_map \in GroupMaps
    /\ localdb \in [LocalGroups ->
                      {NoGroup} \cup {[exists |-> TRUE, members |-> ms] :
                                         ms \in InitialMembers}]
    /\ pc = "for"
    /\ i = 0
    /\ r = NoResponse
    /\ uw_group_member_list = <<>>
    /\ local_group_member_list = <<>>
    /\ add_count = 0
    /\ remove_count = 0
    /\ j = 0
    /\ k = 0
    /\ output = <<>>
    /\ exit_code = -1
    /\ calls = <<>>
    /\ fetched = NoResponse
    /\ readres = NoRead
    /\ snapshot = <<>>
    /\ dbstart = localdb
    /\ failed = FALSE

\* line 96-98: the for loop takes the next mapping and zeroes the counters;
\* the two member lists keep the values of the mapping before until lines
\* 101 and 104 rebind them
ForNext ==
    /\ pc = "for"
    /\ i < Len(group_map)
    /\ i' = i + 1
    /\ add_count' = 0
    /\ remove_count' = 0
    /\ pc' = "fetch"
    /\ calls' = <<>>
    /\ fetched' = NoResponse
    /\ readres' = NoRead
    /\ snapshot' = <<>>
    /\ dbstart' = localdb
    /\ UNCHANGED <<group_map, localdb, r, uw_group_member_list,
                   local_group_member_list, j, k, output, exit_code, failed>>

\* line 137: the loop is exhausted, main returns and the process exits 0
Return ==
    /\ pc = "for"
    /\ i = Len(group_map)
    /\ pc' = "returned"
    /\ exit_code' = 0
    /\ UNCHANGED <<group_map, localdb, i, r, uw_group_member_list,
                   local_group_member_list, add_count, remove_count, j, k,
                   output, calls, fetched, readres, snapshot, dbstart, failed>>

\* The fetch failed in the sense of the service contract: no connection,
\* a status outside 2xx, or a body without a parsable "data"
FetchFailed(f) ==
    f.err \/ f.status \notin 200..299 \/ f.kind \in {"notjson", "nodata"}
ReadFailed(rd) == rd.done /\ (~rd.exists \/ ~rd.tool_ok)

\* line 101-103, with the except of line 105
Fetch ==
    /\ pc = "fetch"
    /\ \E resp \in Responses :
          LET res == get_uw_group_members(resp)
          IN /\ fetched' = [resp EXCEPT !.data = <<>>]
             /\ failed' = (failed \/ FetchFailed(resp))
             /\ IF res.raised
                THEN /\ pc' = "fatal"
                     /\ UNCHANGED uw_group_member_list
                ELSE /\ pc' = "read"
                     /\ uw_group_member_list' = res.value
    /\ UNCHANGED <<group_map, localdb, i, r, local_group_member_list,
                   add_count, remove_count, j, k, output, exit_code, calls,
                   readres, snapshot, dbstart>>

\* line 104, with the except of line 105
ReadLocal ==
    /\ pc = "read"
    /\ \E tool_ok \in BOOLEAN :
          LET res == get_local_group_members(Getent(localdb, local_group, tool_ok))
              rd == [done |-> TRUE, exists |-> localdb[local_group].exists,
                     tool_ok |-> tool_ok]
          IN /\ readres' = rd
             /\ failed' = (failed \/ ReadFailed(rd))
             /\ snapshot' = localdb[local_group].members
             /\ IF res.raised
                THEN /\ pc' = "fatal"
                     /\ UNCHANGED local_group_member_list
                ELSE /\ pc' = "compare"
                     /\ local_group_member_list' = res.value
    /\ UNCHANGED <<group_map, localdb, i, r, uw_group_member_list,
                   add_count, remove_count, j, k, output, exit_code, calls,
                   fetched, dbstart>>

\* Mutant of Fatal: the FATAL line is printed and the loop goes on to the
\* next mapping instead of exiting
FatalContinue ==
    /\ pc = "fatal"
    /\ output' = Append(output, Line("FATAL", <<>>, <<>>, 0, 0))
    /\ pc' = "for"
    /\ UNCHANGED <<group_map, localdb, i, r, uw_group_member_list,
                   local_group_member_list, add_count, remove_count, j, k,
                   exit_code, calls, fetched, readres, snapshot, dbstart,
                   failed>>

\* line 106-107
Fatal ==
    /\ pc = "fatal"
    /\ output' = Append(output, Line("FATAL", <<>>, <<>>, 0, 0))
    /\ exit_code' = 1
    /\ pc' = "exited"
    /\ UNCHANGED <<group_map, localdb, i, r, uw_group_member_list,
                   local_group_member_list, add_count, remove_count, j, k,
                   calls, fetched, readres, snapshot, dbstart, failed>>

\* line 109
Compare ==
    /\ pc = "compare"
    /\ IF SetsDiffer(uw_group_member_list, local_group_member_list)
       THEN pc' = "add" /\ j' = 1
       ELSE pc' = "report" /\ UNCHANGED j
    /\ UNCHANGED <<group_map, localdb, i, r, uw_group_member_list,
                   local_group_member_list, add_count, remove_count, k,
                   output, exit_code, calls, fetched, readres, snapshot,
                   dbstart, failed>>

\* line 110-119: one iteration of the loop over uw_group_member_list
AddStep ==
    /\ pc = "add"
    /\ j <= Len(uw_group_member_list)
    /\ LET member == uw_group_member_list[j]
       IN IF NeedsAdd(member, local_group_member_list)
          THEN \E env_ok \in BOOLEAN :
                  LET res == add_local_group_member(localdb, local_group,
                                                    member, env_ok)
                  IN /\ localdb' = res.db
                     /\ calls' = Append(calls, Call("add", local_group,
                                                    member, ~res.raised))
                     /\ add_count' = IF res.raised THEN add_count
                                      ELSE add_count + 1
                     /\ j' = NextMember(j, res.raised,
                                        Len(uw_group_member_list))
          ELSE /\ j' = j + 1
               /\ UNCHANGED <<localdb, calls, add_count>>
    /\ UNCHANGED <<group_map, pc, i, r, uw_group_member_list,
                   local_group_member_list, remove_count, k, output, exit_code,
                   fetched, readres, snapshot, dbstart, failed>>

\* line 110 exhausted, line 121 begins
AddDone ==
    /\ pc = "add"
    /\ j > Len(uw_group_member_list)
    /\ pc' = "remove"
    /\ j' = 0
    /\ k' = 1
    /\ UNCHANGED <<group_map, localdb, i, r, uw_group_member_list,
                   local_group_member_list, add_count, remove_count,
                   output, exit_code, calls, fetched, readres, snapshot,
                   dbstart, failed>>

\* line 121-130: one iteration of the loop over local_group_member_list
RemoveStep ==
    /\ pc = "remove"
    /\ k <= Len(local_group_member_list)
    /\ LET member == local_group_member_list[k]
       IN IF NeedsRemove(member, uw_group_member_list)
          THEN \E env_ok \in BOOLEAN :
                  LET res == remove_local_group_member(localdb, local_group,
                                                       member, env_ok)
                  IN /\ localdb' = res.db
                     /\ calls' = Append(calls, Call("remove", local_group,
                                                    member, ~res.raised))
                     /\ remove_count' = IF res.raised THEN remove_count
                                         ELSE remove_count + 1
                     /\ k' = NextMember(k, res.raised,
                                        Len(local_group_member_list))
          ELSE /\ k' = k + 1
               /\ UNCHANGED <<localdb, calls, remove_count>>
    /\ UNCHANGED <<group_map, pc, i, r, uw_group_member_list,
                   local_group_member_list, add_count, j, output, exit_code,
                   fetched, readres, snapshot, dbstart, failed>>

\* line 121 exhausted
RemoveDone ==
    /\ pc = "remove"
    /\ k > Len(local_group_member_list)
    /\ pc' = "report"
    /\ k' = 0
    /\ UNCHANGED <<group_map, localdb, i, r, uw_group_member_list,
                   local_group_member_list, add_count, remove_count, j,
                   output, exit_code, calls, fetched, readres, snapshot,
                   dbstart, failed>>

\* line 131-135
Report ==
    /\ pc = "report"
    /\ output' = Append(output, Line("SUMMARY", uw_group, local_group,
                                     add_count, remove_count))
    /\ pc' = "for"
    /\ UNCHANGED <<group_map, localdb, i, r, uw_group_member_list,
                   local_group_member_list, add_count, remove_count, j, k,
                   exit_code, calls, fetched, readres, snapshot, dbstart,
                   failed>>

Next ==
    \/ ForNext
    \/ Return
    \/ Fetch
    \/ ReadLocal
    \/ Fatal
    \/ Compare
    \/ AddStep
    \/ AddDone
    \/ RemoveStep
    \/ RemoveDone
    \/ Report

Spec == Init /\ [][Next]_vars

(* ------------------ get_uw_group_members on its own ------------------- *)

\* Ids of every shape the pattern tells apart: all strings of at most
\* MaxIdLen characters over a lowercase letter, a digit, an uppercase letter
\* and a newline, and the same after seven lowercase letters (lengths 7 to
\* 7 + MaxIdLen, on both sides of the limit of 8)
IdAlphabet == {Ord("a"), Ord("7"), Ord("B"), NL}
ShortIds == UNION {[1..n -> IdAlphabet] : n \in 0..MaxIdLen}
IdPool == ShortIds \cup {[m \in 1..7 |-> Ord("a")] \o t : t \in ShortIds}
TypePool == {"uwnetid", "group"}
EntryPool == {[type |-> t, id |-> d] : t \in TypePool, d \in IdPool}

InitFetch ==
    /\ r \in ResponsesOver(EntryPool, MaxEntries)
    /\ pc = "get_uw_group_members"
    /\ group_map = <<>>
    /\ localdb = [g \in LocalGroups |-> NoGroup]
    /\ i = 0
    /\ uw_group_member_list = <<>>
    /\ local_group_member_list = <<>>
    /\ add_count = 0
    /\ remove_count = 0
    /\ j = 0
    /\ k = 0
    /\ output = <<>>
    /\ exit_code = -1
    /\ calls = <<>>
    /\ fetched = NoResponse
    /\ readres = NoRead
    /\ snapshot = <<>>
    /\ dbstart = localdb
    /\ failed = FALSE

\* line 24-39: one call of get_uw_group_members on the response r
CallFetch ==
    /\ pc = "get_uw_group_members"
    /\ LET res == get_uw_group_members(r)
       IN /\ pc' = IF res.raised THEN "fetch_raised" ELSE "fetch_returned"
          /\ uw_group_member_list' = res.value
    /\ UNCHANGED <<group_map, localdb, i, r, local_group_member_list,
                   add_count, remove_count, j, k, output, exit_code, calls,
                   fetched, readres, snapshot, dbstart, failed>>

NextFetch == CallFetch

SpecFetch == InitFetch /\ [][NextFetch]_vars

(* ------------------------------ properties ---------------------------- *)

RemoteSet == SeqToSet(uw_group_member_list)
LocalSet == SeqToSet(local_group_member_list)
ToAdd == RemoteSet \ LocalSet
ToRemove == LocalSet \ RemoteSet
Members(g) == SeqToSet(localdb[g].members)

\* Both lists of the current mapping have been read
InCycle == pc \in {"compare", "add", "remove", "report"}
\* The summary line of mapping i has just been printed
Reported == pc = "for" /\ i > 0
Terminated == pc \in {"returned", "exited"}
FetchDone == fetched # NoResponse

CallsOf(op) == {n \in 1..Len(calls) : calls[n].op = op}
OkCallsOf(op) == {n \in CallsOf(op) : calls[n].ok}
Attempted(op, member) == \E n \in CallsOf(op) : calls[n].member = member
AllCallsOk == \A n \in 1..Len(calls) : calls[n].ok

SummariesOf(m) ==
    {n \in 1..Len(output) : /\ output[n].kind = "SUMMARY"
                            /\ output[n].uw = group_map[m].uw
                            /\ output[n].lg = group_map[m].lg}
LastLine == output[Len(output)]

\* C1: the add set and the remove set of a mapping are disjoint, and when
\* every add and remove call of the mapping has succeeded the local group's
\* membership at the end of the cycle is the remote set, which is also
\* (localSet \cup ToAdd) \ ToRemove.
C1_DeltaReachesRemote ==
    (pc = "report" /\ AllCallsOk) =>
        /\ ToAdd \cap ToRemove = {}
        /\ (LocalSet \cup ToAdd) \ ToRemove = RemoteSet
        /\ Members(local_group) = RemoteSet

C1_Witness ==
    /\ pc = "report"
    /\ AllCallsOk
    /\ OkCallsOf("add") # {}
    /\ OkCallsOf("remove") # {}
    /\ Members(local_group) = {carol}

\* C2: a group record with an empty member field is read as an empty member
\* list, and the empty string is never handed to gpasswd as a member.
C2_EmptyFieldReadsEmpty ==
    ((InCycle \/ Reported) /\ snapshot = <<>>) =>
        /\ local_group_member_list = <<>>
        /\ \A n \in 1..Len(calls) : calls[n].member # <<>>

\* C3: when the remote member set equals the local group's member set (both
\* may be empty) the mapping issues no add and no remove call, and its
\* summary line is printed with ADD: 0 REM: 0.
C3_EqualSetsNoCalls ==
    (Reported /\ RemoteSet = SeqToSet(snapshot)) =>
        /\ calls = <<>>
        /\ LastLine = Line("SUMMARY", uw_group, local_group, 0, 0)

\* C4: the member set get_uw_group_members returns holds exactly the ids of
\* the entries whose type is "uwnetid" and whose id is a lowercase letter
\* followed by at most seven lowercase letters or digits.
C4_FilterIsExact ==
    (pc = "fetch_returned") =>
        SeqToSet(uw_group_member_list) =
            {r.data[n].id : n \in {m \in 1..Len(r.data) :
                                      /\ r.data[m].type = "uwnetid"
                                      /\ NetIDCore(r.data[m].id)}}

\* C5: when the fetch of a mapping fails (no connection, a status outside
\* 2xx, a body that is not JSON or has no data) or the local read fails (no
\* such group, or the query tool fails), no add or remove call is issued
\* for the mapping.
C5_FailedFetchNoMutation ==
    ((FetchDone /\ FetchFailed(fetched)) \/ ReadFailed(readres)) =>
        calls = <<>>

\* C6: the process exits non-zero exactly when the fetch or the read of some
\* mapping failed; the first failure ends the run, so the mappings before it
\* are the only ones with a summary line; with no failure every mapping has
\* its summary line, in configuration order, and the exit status is 0.
C6_ExitStatus ==
    Terminated =>
        /\ (exit_code # 0) <=> failed
        /\ failed =>
              /\ \A m \in 1..(i - 1) : Cardinality(SummariesOf(m)) = 1
              /\ \A m \in i..Len(group_map) : SummariesOf(m) = {}
        /\ ~failed =>
              /\ Len(output) = Len(group_map)
              /\ \A m \in 1..Len(group_map) :
                    /\ output[m].kind = "SUMMARY"
                    /\ output[m].uw = group_map[m].uw
                    /\ output[m].lg = group_map[m].lg

\* C7: within a mapping every member of ToAdd gets an add attempt and every
\* member of ToRemove gets a remove attempt, whatever calls failed before,
\* and the summary's ADD and REM are the numbers of add and remove calls
\* that succeeded.
C7_EveryMemberAttempted ==
    /\ (InCycle \/ Reported) =>
          /\ add_count = Cardinality(OkCallsOf("add"))
          /\ remove_count = Cardinality(OkCallsOf("remove"))
    /\ Reported =>
          /\ \A m \in ToAdd : Attempted("add", m)
          /\ \A m \in ToRemove : Attempted("remove", m)
          /\ LastLine = Line("SUMMARY", uw_group, local_group,
                             Cardinality(OkCallsOf("add")),
                             Cardinality(OkCallsOf("remove")))

C7_Witness ==
    /\ Reported
    /\ calls = <<Call("add", local_group, carol, FALSE),
                 Call("remove", local_group, alice, TRUE)>>
    /\ LastLine.add = 0
    /\ LastLine.rem = 1

\* C8 as stated: every mapping whose cycle started has exactly one summary
\* line when the run has ended, also when its fetch or read failed.
C8_AlwaysReported ==
    Terminated => \A m \in 1..i : Cardinality(SummariesOf(m)) = 1

\* C8 as amended: a mapping whose fetch and read raise nothing gets exactly
\* one summary line when its cycle ends; a mapping whose fetch or read
\* raises gets none: FATAL is printed, the process exits with status 1 and
\* no later mapping starts.  Until the run has ended a step is possible.
C8_ReportedUnlessFatal ==
    /\ \A m \in 1..Len(group_map) :
          Cardinality(SummariesOf(m)) =
              IF m < i \/ (m = i /\ pc \in {"for", "returned"}) THEN 1 ELSE 0
    /\ pc = "exited" =>
          /\ exit_code = 1
          /\ LastLine.kind = "FATAL"
          /\ SummariesOf(i) = {}
    /\ ~Terminated => ENABLED Next

C8_Witness ==
    /\ pc = "exited"
    /\ i = 2
    /\ Cardinality(SummariesOf(1)) = 1
    /\ SummariesOf(2) = {}

\* C9: within a mapping no member is added twice and no member is removed
\* twice, so ADD never exceeds |remoteSet - localSet| and REM never exceeds
\* |localSet - remoteSet|, also when the response lists an id twice.
C9_OneCallPerMember ==
    (InCycle \/ Reported) =>
        /\ \A a, b \in 1..Len(calls) :
              (a # b /\ calls[a].op = calls[b].op) =>
                  calls[a].member # calls[b].member
        /\ add_count <= Cardinality(ToAdd)
        /\ remove_count <= Cardinality(ToRemove)

\* C10: every gpasswd call of a mapping names the mapping's local group and
\* is an add of a member fetched and not read, or a remove of a member read
\* and not fetched; a member in both lists is never added or removed; all
\* other local groups stay as they were when the mapping started.
C10_OnlyDeltaOnOwnGroup ==
    (InCycle \/ Reported) =>
        /\ \A n \in 1..Len(calls) :
              /\ calls[n].lg = local_group
              /\ \/ calls[n].op = "add" /\ calls[n].member \in ToAdd
                 \/ calls[n].op = "remove" /\ calls[n].member \in ToRemove
              /\ calls[n].member \notin RemoteSet \cap LocalSet
        /\ \A g \in LocalGroups \ {local_group} : localdb[g] = dbstart[g]

C10_Witness ==
    /\ Reported
    /\ OkCallsOf("add") # {}
    /\ alice \in RemoteSet \cap LocalSet
    /\ \E g \in LocalGroups \ {local_group} : localdb[g].members # <<>>

====
